---- MODULE Spec2Model ----
(***************************************************************************)
(* A model of nn.c, the feed-forward neural network engine of neural-redis *)
(* (RPROP and gradient-descent training).                                  *)
(*                                                                         *)
(* Numbers.  The program computes in C `float`.  The model computes in     *)
(* fixed point: every float is an integer count of units of 1/Q, a product *)
(* is rounded toward zero to that grid (Mul) and so is a quotient (Div).   *)
(* Arrays are functions on 0..n-1, as in C.  Layers are indexed from the   *)
(* output layer (0) to the input layer (layers-1), as in the program.      *)
(***************************************************************************)
EXTENDS Integers, Sequences, FiniteSets, TLC

(* ------------------------------ bounds --------------------------------- *)
\* Layer counts and requested unit counts tried by the store specification.
MaxLayers == 3
MaxUnits == 2
\* Epoch calls made one after the other on one network.
MaxCalls == 3
\* Examples in a dataset, and the maxepochs argument, of a train or test call.
MaxSetLen == 2
MaxEpochs == 2

(* --------------------------- fixed point ------------------------------- *)
\* One float unit: 1.0 is Q.
Q == 1000

Abs(x) == IF x < 0 THEN -x ELSE x

Sgn(x) == IF x > 0 THEN 1 ELSE IF x < 0 THEN -1 ELSE 0

\* a*b on the grid, rounded toward zero; split so that no intermediate
\* product leaves the 32-bit range of TLC's integers.
Mul(a, b) ==
    LET x == Abs(a)
        y == Abs(b)
    IN  Sgn(a) * Sgn(b) * ((x \div Q) * y + ((x % Q) * y) \div Q)

\* a/b on the grid for a float a and an int b > 0, rounded toward zero.
DivInt(a, n) == Sgn(a) * (Abs(a) \div n)

MIN(a, b) == IF a < b THEN a ELSE b

MAX(a, b) == IF a > b THEN a ELSE b

(* ----------------------- nn.h: constants and macros -------------------- *)
DEFAULT_RPROP_NMINUS == 500
DEFAULT_RPROP_NPLUS == 1200
DEFAULT_RPROP_MAXUPDATE == 50000
\* 1e-6 is below the grid: the smallest positive step the grid has.
DEFAULT_RPROP_MINUPDATE == 1
RPROP_INITIAL_DELTA == 100
DEFAULT_LEARN_RATE == 100
NN_ALGO_BPROP == 0
NN_ALGO_GD == 1

Fields == {"output", "error", "weight", "gradient", "pgradient", "delta", "sgradient"}

WFields == {"weight", "gradient", "pgradient", "delta", "sgradient"}

EmptyArr == [k \in {} |-> 0]

ZeroArr(n) == [k \in 0..(n - 1) |-> 0]

LAYERS(net) == net.layers

UNITS(net, l) == net.layer[l].units

WEIGHTS(net, l) == UNITS(net, l) * UNITS(net, l - 1)

OUTPUT_UNITS(net) == UNITS(net, 0)

\* The input values a caller supplies: the input layer's non-bias units.
INPUT_UNITS(net) == UNITS(net, LAYERS(net) - 1) - 1

(* ------------------------------ the heap ------------------------------- *)
\* A block is <<owner, layer, name>>; layer -1 holds the two structures.
\* live: allocated and not released; freed: released once; dbl: released
\* again after that.
EmptyHeap == [live |-> {}, freed |-> {}, dbl |-> {}]

Malloc(heap, b) == [heap EXCEPT !.live = @ \cup {b}]

\* free(p); free(NULL) does nothing, so the callers pass only non-null p.
Free(heap, b) ==
    IF b \in heap.live
    THEN [heap EXCEPT !.live = @ \ {b}, !.freed = @ \cup {b}]
    ELSE [heap EXCEPT !.dbl = @ \cup {b}]

(* ------------------------ Network & Layer Store ------------------------ *)
\* p: the names of the array pointers that are not NULL.
AnnResetLayer ==
    [units |-> 0, p |-> {}, output |-> EmptyArr, error |-> EmptyArr,
     weight |-> EmptyArr, gradient |-> EmptyArr, pgradient |-> EmptyArr,
     delta |-> EmptyArr, sgradient |-> EmptyArr]

\* The NULL network pointer.
NoNet ==
    [layers |-> 0, flags |-> 0, rprop_nminus |-> 0, rprop_nplus |-> 0,
     rprop_maxupdate |-> 0, rprop_minupdate |-> 0, learn_rate |-> 0,
     layer |-> [i \in {} |-> AnnResetLayer]]

\* malloc leaves learn_rate unset: lr is whatever the block held.
\* okNet, okLayers: whether the two malloc calls succeed.
AnnAlloc(heap, owner, layers, okNet, okLayers, lr) ==
    IF ~okNet THEN [net |-> NoNet, heap |-> heap]
    ELSE IF ~okLayers
    THEN [net |-> NoNet,
          heap |-> Free(Malloc(heap, <<owner, -1, "net">>), <<owner, -1, "net">>)]
    ELSE [net |-> [layers |-> layers, flags |-> 0,
                   rprop_nminus |-> DEFAULT_RPROP_NMINUS,
                   rprop_nplus |-> DEFAULT_RPROP_NPLUS,
                   rprop_maxupdate |-> DEFAULT_RPROP_MAXUPDATE,
                   rprop_minupdate |-> DEFAULT_RPROP_MINUPDATE,
                   learn_rate |-> lr,
                   layer |-> [i \in 0..(layers - 1) |-> AnnResetLayer]],
          heap |-> Malloc(Malloc(heap, <<owner, -1, "net">>),
                          <<owner, -1, "layers">>)]

RECURSIVE FreeAll(_, _, _, _)
\* free() of each pointer of fs that is not NULL.
FreeAll(heap, owner, i, fs) ==
    IF fs = {} THEN heap
    ELSE LET f == CHOOSE x \in fs : TRUE
         IN  FreeAll(Free(heap, <<owner, i, f>>), owner, i, fs \ {f})

\* Frees the layer's arrays and resets the layer.
AnnFreeLayer(heap, owner, i, layer) ==
    [layer |-> AnnResetLayer, heap |-> FreeAll(heap, owner, i, layer.p)]

RECURSIVE MallocAll(_, _, _, _)
MallocAll(heap, owner, i, fs) ==
    IF fs = {} THEN heap
    ELSE LET f == CHOOSE x \in fs : TRUE
         IN  MallocAll(Malloc(heap, <<owner, i, f>>), owner, i, fs \ {f})

\* The arrays AnnInitLayer allocates for layer i.
Wanted(i) == IF i = 0 THEN {"output", "error"} ELSE Fields

\* fail: the names of the arrays whose malloc returns NULL.
\* Returns rc = 1 on out of memory.
AnnInitLayer(net, heap, owner, i, units0, bias, fail) ==
    LET units == IF bias THEN units0 + 1 ELSE units0
        got == Wanted(i) \ fail
        h1 == MallocAll(heap, owner, i, got)
        n == IF i > 0 THEN units * net.layer[i - 1].units ELSE 0
        half == [net.layer[i] EXCEPT !.p = got, !.units = units]
    IN  IF got # Wanted(i)
        THEN LET fr == AnnFreeLayer(h1, owner, i, half)
             IN  [net |-> [net EXCEPT !.layer[i] = AnnResetLayer],
                  heap |-> fr.heap, rc |-> 1]
        ELSE [net |-> [net EXCEPT !.layer[i] =
                         [units |-> units, p |-> got,
                          output |-> [k \in 0..(units - 1) |->
                                        IF bias /\ k = units - 1 THEN Q ELSE 0],
                          error |-> ZeroArr(units),
                          weight |-> ZeroArr(n), gradient |-> ZeroArr(n),
                          pgradient |-> ZeroArr(n), delta |-> ZeroArr(n),
                          sgradient |-> ZeroArr(n)]],
              heap |-> h1, rc |-> 0]

RECURSIVE FreeLayers(_, _, _, _)
FreeLayers(heap, owner, net, i) ==
    IF i >= net.layers THEN heap
    ELSE FreeLayers(AnnFreeLayer(heap, owner, i, net.layer[i]).heap, owner, net, i + 1)

\* AnnFree without its loop over the layers.
AnnFreeShallow(heap, owner, net) ==
    Free(Free(heap, <<owner, -1, "layers">>), <<owner, -1, "net">>)

\* Frees the layers' arrays, the layer table and the structure.
AnnFree(heap, owner, net) ==
    Free(Free(FreeLayers(heap, owner, net, 0), <<owner, -1, "layers">>),
         <<owner, -1, "net">>)

\* The stream of rand() results, already scaled to [-0.05, +0.05): draw
\* number n is r[n % Len(r)].
Draw(r, n) == r[(n % Len(r)) + 1]

RECURSIVE WeightsBelow(_, _)
\* The number of weight entries of layers 1..l-1.
WeightsBelow(net, l) ==
    IF l <= 1 THEN 0 ELSE WEIGHTS(net, l - 1) + WeightsBelow(net, l - 1)

\* Every entry of every weight array gets the next draw.
AnnSetRandomWeights(net, r) ==
    [net EXCEPT !.layer = [l \in DOMAIN @ |->
        IF l = 0 THEN @[l]
        ELSE [@[l] EXCEPT !.weight =
                [k \in 0..(WEIGHTS(net, l) - 1) |->
                    Draw(r, WeightsBelow(net, l) + k)]]]]

AnnSetDeltas(net, val) ==
    [net EXCEPT !.layer = [l \in DOMAIN @ |->
        IF l = 0 THEN @[l]
        ELSE [@[l] EXCEPT !.delta =
                [k \in 0..(UNITS(net, l) * UNITS(net, l - 1) - 1) |-> val]]]]

\* The bias on every layer but the input layer.
CreateBiasNonInput(layers, i) == i < layers - 1

\* Whether AnnCreateNet asks for a bias unit on layer i.
CreateBias(layers, i) == i > 0

RECURSIVE CreateLayers(_, _, _, _, _, _, _)
\* The loop of AnnCreateNet from layer i on; failAt: the layer whose
\* allocation fails (layers: none), fail: the arrays that fail there.
CreateLayers(net, heap, owner, units, i, failAt, fail) ==
    IF i >= net.layers THEN [net |-> net, heap |-> heap]
    ELSE LET r == AnnInitLayer(net, heap, owner, i, units[i + 1],
                               CreateBias(net.layers, i),
                               IF i = failAt THEN fail ELSE {})
         IN  IF r.rc # 0
             THEN [net |-> NoNet, heap |-> AnnFree(r.heap, owner, r.net)]
             ELSE CreateLayers(r.net, r.heap, owner, units, i + 1, failAt, fail)

\* units: the requested unit counts, from the output to the input layer
\* (units[i+1] is the program's units[i]).  A NoNet result is NULL.
AnnCreateNet(heap, owner, units, okNet, okLayers, failAt, fail, lr, r) ==
    LET a == AnnAlloc(heap, owner, Len(units), okNet, okLayers, lr)
    IN  IF a.net = NoNet THEN a
        ELSE LET c == CreateLayers(a.net, a.heap, owner, units, 0, failAt, fail)
             IN  IF c.net = NoNet THEN c
                 ELSE [net |-> [AnnSetDeltas(AnnSetRandomWeights(c.net, r),
                                             RPROP_INITIAL_DELTA)
                                  EXCEPT !.learn_rate = DEFAULT_LEARN_RATE],
                       heap |-> c.heap]

\* memcpy(dst, src, n floats).
Memcpy(dst, src, n) ==
    [k \in DOMAIN dst |-> IF k < n THEN src[k] ELSE dst[k]]

\* One layer of the clone filled from the source layer.
CloneLayer(net, j, ldst) ==
    LET lsrc == net.layer[j]
        units == UNITS(net, j)
        weights == IF j > 0 THEN WEIGHTS(net, j) ELSE 0
        Cp(f) == IF j > 0 /\ f \in lsrc.p
                 THEN Memcpy(ldst[f], lsrc[f], weights) ELSE ldst[f]
    IN  [ldst EXCEPT
           !.output = IF "output" \in lsrc.p
                      THEN Memcpy(@, lsrc.output, units) ELSE @,
           !.error = IF "error" \in lsrc.p
                     THEN Memcpy(@, lsrc.error, units) ELSE @,
           !.weight = Cp("weight"), !.gradient = Cp("gradient"),
           !.pgradient = Cp("pgradient"), !.delta = Cp("delta"),
           !.sgradient = Cp("sgradient")]

\* The hyperparameters AnnClone copies after the layers.
CloneParams(copy, net) ==
    [copy EXCEPT !.rprop_nminus = net.rprop_nminus,
                 !.rprop_nplus = net.rprop_nplus,
                 !.rprop_maxupdate = net.rprop_maxupdate,
                 !.rprop_minupdate = net.rprop_minupdate,
                 !.flags = net.flags]

RECURSIVE CloneLayers(_, _, _, _, _, _, _)
CloneLayers(copy, heap, owner, net, j, failAt, fail) ==
    IF j >= LAYERS(net) THEN [net |-> copy, heap |-> heap]
    ELSE LET units == UNITS(net, j)
             bias == j > 0
             r == AnnInitLayer(copy, heap, owner, j,
                               IF bias THEN units - 1 ELSE units, bias,
                               IF j = failAt THEN fail ELSE {})
         IN  IF r.rc # 0
             THEN [net |-> NoNet, heap |-> AnnFree(r.heap, owner, r.net)]
             ELSE CloneLayers([r.net EXCEPT !.layer[j] = CloneLayer(net, j, @)],
                              r.heap, owner, net, j + 1, failAt, fail)

\* lr: what the clone's learn_rate slot holds, which nothing writes.
AnnClone(heap, owner, net, okNet, okLayers, failAt, fail, lr) ==
    LET a == AnnAlloc(heap, owner, LAYERS(net), okNet, okLayers, lr)
    IN  IF a.net = NoNet THEN a
        ELSE LET c == CloneLayers(a.net, a.heap, owner, net, 0, failAt, fail)
             IN  IF c.net = NoNet THEN c
                 ELSE [net |-> CloneParams(c.net, net), heap |-> c.heap]

\* The destinations with the bias unit counted in.
NextUnitsAll(net, i) == net.layer[i - 1].units

\* The units of layer i-1 that layer i's weights lead to: its bias unit,
\* if it has one, is no destination.
NextUnits(net, i) ==
    IF i > 1 THEN net.layer[i - 1].units - 1 ELSE net.layer[i - 1].units

RECURSIVE CountFrom(_, _)
CountFrom(net, i) ==
    IF i <= 0 THEN 0
    ELSE net.layer[i].units * NextUnits(net, i) + CountFrom(net, i - 1)

AnnCountWeights(net) == CountFrom(net, net.layers - 1)

(* --------------------- Forward Propagation Engine ---------------------- *)
\* Q*sigmoid(k) for k = 0..7.
SigKnots == <<500, 731, 881, 953, 982, 993, 998, 999>>

\* 1/(1+exp(-x)) on the grid: linear between the integer knots, Q-1 from 7
\* on and, as in single precision, exactly 1 from 17 on; the negative side
\* by symmetry.
sigmoid(x) ==
    LET a == Abs(x)
        k == a \div Q
        f == a % Q
        y == IF k >= 17 THEN Q
             ELSE IF k >= 7 THEN Q - 1
             ELSE SigKnots[k + 1] + ((SigKnots[k + 2] - SigKnots[k + 1]) * f) \div Q
    IN  IF x >= 0 THEN y ELSE Q - y

RECURSIVE Dot(_, _, _, _)
\* The sum of w[base+k]*o[k] for k < n.
Dot(w, o, base, n) ==
    IF n = 0 THEN 0
    ELSE Dot(w, o, base, n - 1) + Mul(w[base + n - 1], o[n - 1])

\* The round writing every unit of layer i-1, a bias unit included.
SimulateLayerAllUnits(net, i) ==
    LET units == net.layer[i].units
    IN  [net EXCEPT !.layer[i - 1].output =
            [j \in DOMAIN @ |->
                sigmoid(Dot(net.layer[i].weight, net.layer[i].output,
                            j * units, units))]]

\* One round of AnnSimulate's outer loop: the outputs of layer i-1 from
\* those of layer i, with every unit but nextunits.. left as it is.
SimulateLayer(net, i) ==
    LET nextunits == NextUnits(net, i)
        units == net.layer[i].units
    IN  [net EXCEPT !.layer[i - 1].output =
            [j \in DOMAIN @ |->
                IF j < nextunits
                THEN sigmoid(Dot(net.layer[i].weight, net.layer[i].output,
                                 j * units, units))
                ELSE @[j]]]

RECURSIVE SimulateFrom(_, _)
SimulateFrom(net, i) ==
    IF i <= 0 THEN net ELSE SimulateFrom(SimulateLayer(net, i), i - 1)

AnnSimulate(net) == SimulateFrom(net, net.layers - 1)

RECURSIVE SumSq(_, _, _)
SumSq(net, desired, n) ==
    IF n = 0 THEN 0
    ELSE LET t == desired[n] - net.layer[0].output[n - 1]
         IN  SumSq(net, desired, n - 1) + Mul(t, t)

\* desired[i+1] is the program's desired[i].
AnnGlobalError(net, desired) ==
    Mul(Q \div 2, SumSq(net, desired, OUTPUT_UNITS(net)))

AnnSetInput(net, input) ==
    [net EXCEPT !.layer[LAYERS(net) - 1].output =
        [i \in DOMAIN @ |-> IF i < INPUT_UNITS(net) THEN input[i + 1] ELSE @[i]]]

\* The call that goes on to the backward pass, as a training step does.
AnnSimulateErrorBackward(net, input, desired) ==
    LET n == AnnSimulate(AnnSetInput(net, input))
        e == [k \in DOMAIN n.layer[0].error |->
                 n.layer[0].output[k] - desired[k + 1]]
    IN  [net |-> [n EXCEPT !.layer[0].error = e],
         error |-> AnnGlobalError(n, desired)]

\* The network after the call, and the error it returns.
AnnSimulateError(net, input, desired) ==
    LET n == AnnSimulate(AnnSetInput(net, input))
    IN  [net |-> n, error |-> AnnGlobalError(n, desired)]

(* ---------------------- Error & Gradient Engine ------------------------ *)
AnnCalculateOutputError(net, desired) ==
    LET units == OUTPUT_UNITS(net)
        factor == DivInt(2 * Q, units)
    IN  [net EXCEPT !.layer[0].error =
            [j \in DOMAIN @ |->
                IF j < units
                THEN Mul(factor, net.layer[0].output[j] - desired[j + 1])
                ELSE @[j]]]

\* The units of layer j that AnnCalculateGradients takes as destinations.
GradUnits(net, j) ==
    IF j > 1 THEN net.layer[j].units - 1 ELSE net.layer[j].units

\* The units of layer j that the loop takes as destinations.
Destinations(net, j) == 0..(GradUnits(net, j) - 1)

\* error[i] * output[i] * (1 - output[i]) of unit i of layer j.
ErrorSignal(net, j, i) ==
    LET oi == net.layer[j].output[i]
    IN  Mul(net.layer[j].error[i], Mul(oi, Q - oi))

RECURSIVE BackError(_, _, _, _, _)
\* The sum over the destinations i < n of signal(i) * weight[i*prevunits+k].
BackError(net, j, k, prevunits, n) ==
    IF n = 0 THEN 0
    ELSE BackError(net, j, k, prevunits, n - 1) +
         Mul(ErrorSignal(net, j, n - 1),
             net.layer[j + 1].weight[(n - 1) * prevunits + k])

\* One round of AnnCalculateGradients's loop: layer j's error signals give
\* layer j+1 its gradient rows and its error array.
GradientsLayer(net, j) ==
    LET units == GradUnits(net, j)
        prevunits == net.layer[j + 1].units
    IN  [net EXCEPT
           !.layer[j + 1].gradient =
              [x \in DOMAIN @ |->
                  IF x \div prevunits < units
                  THEN Mul(ErrorSignal(net, j, x \div prevunits),
                           net.layer[j + 1].output[x % prevunits])
                  ELSE @[x]],
           !.layer[j + 1].error =
              [k \in DOMAIN @ |->
                  IF k < prevunits THEN BackError(net, j, k, prevunits, units)
                  ELSE @[k]]]

RECURSIVE GradientsFrom(_, _)
GradientsFrom(net, j) ==
    IF j >= LAYERS(net) - 1 THEN net
    ELSE GradientsFrom(GradientsLayer(net, j), j + 1)

AnnCalculateGradients(net, desired) ==
    GradientsFrom(AnnCalculateOutputError(net, desired), 0)

(* ---------------------- RPROP Weight-Update Engine --------------------- *)
AnnResetSgradient(net) ==
    [net EXCEPT !.layer = [l \in DOMAIN @ |->
        IF l = 0 THEN @[l]
        ELSE [@[l] EXCEPT !.sgradient =
                [k \in DOMAIN @ |->
                    IF k < UNITS(net, l) * UNITS(net, l - 1) THEN 0 ELSE @[k]]]]]

\* The running sum and the gradient just computed.
SgradientAssign(sg, g) == g

SgradientAdd(sg, g) == sg + g

AnnUpdateSgradient(net) ==
    [net EXCEPT !.layer = [l \in DOMAIN @ |->
        IF l = 0 THEN @[l]
        ELSE [@[l] EXCEPT !.sgradient =
                [k \in DOMAIN @ |->
                    IF k < UNITS(net, l) * UNITS(net, l - 1)
                    THEN SgradientAdd(@[k], net.layer[l].gradient[k])
                    ELSE @[k]]]]]

\* The sign test t = pgradient * sgradient.  The product of two floats
\* that are not zero is not zero, so the grid's product is kept off zero.
SignTest(p, s) == Sgn(p) * Sgn(s) * MAX(1, Mul(Abs(p), Abs(s)))

\* The sign-flip branch undoing with the shrunken delta.
RpropEntryLateUndo(net, w, d, p, s) ==
    LET t == SignTest(p, s)
    IN  IF t > 0
        THEN LET delta == MIN(Mul(d, net.rprop_nplus), net.rprop_maxupdate)
             IN  [weight |-> w + (-Sgn(s) * delta), delta |-> delta,
                  pgradient |-> s]
        ELSE IF t < 0
        THEN LET delta == MAX(Mul(d, net.rprop_nminus), net.rprop_minupdate)
             IN  [weight |-> w - (-Sgn(p) * delta), delta |-> delta,
                  pgradient |-> 0]
        ELSE [weight |-> w + (-Sgn(s) * d), delta |-> d, pgradient |-> s]

\* The sign-flip branch that stores the new gradient as the other
\* branches do.
RpropEntryKeepsGradient(net, w, d, p, s) ==
    LET t == SignTest(p, s)
    IN  IF t > 0
        THEN LET delta == MIN(Mul(d, net.rprop_nplus), net.rprop_maxupdate)
             IN  [weight |-> w + (-Sgn(s) * delta), delta |-> delta,
                  pgradient |-> s]
        ELSE IF t < 0
        THEN [weight |-> w + Sgn(p) * d,
              delta |-> MAX(Mul(d, net.rprop_nminus), net.rprop_minupdate),
              pgradient |-> s]
        ELSE [weight |-> w + (-Sgn(s) * d), delta |-> d, pgradient |-> s]

\* The sign-flip branch that only forgets the gradient and leaves the
\* weight where it is.
RpropEntryNoUndo(net, w, d, p, s) ==
    LET t == SignTest(p, s)
    IN  IF t > 0
        THEN LET delta == MIN(Mul(d, net.rprop_nplus), net.rprop_maxupdate)
             IN  [weight |-> w + (-Sgn(s) * delta), delta |-> delta,
                  pgradient |-> s]
        ELSE IF t < 0
        THEN [weight |-> w,
              delta |-> MAX(Mul(d, net.rprop_nminus), net.rprop_minupdate),
              pgradient |-> 0]
        ELSE [weight |-> w + (-Sgn(s) * d), delta |-> d, pgradient |-> s]

\* The body of AnnAdjustWeightsResilientBP's inner loop for one entry with
\* weight w, delta d, pgradient p and sgradient s.
RpropEntry(net, w, d, p, s) ==
    LET t == SignTest(p, s)
    IN  IF t > 0
        THEN LET delta == MIN(Mul(d, net.rprop_nplus), net.rprop_maxupdate)
                 wdelta == -Sgn(s) * delta
             IN  [weight |-> w + wdelta, delta |-> delta, pgradient |-> s]
        ELSE IF t < 0
        THEN LET past_wdelta == -Sgn(p) * d
                 delta == MAX(Mul(d, net.rprop_nminus), net.rprop_minupdate)
             IN  [weight |-> w - past_wdelta, delta |-> delta, pgradient |-> 0]
        ELSE LET wdelta == -Sgn(s) * d
             IN  [weight |-> w + wdelta, delta |-> d, pgradient |-> s]

\* The entries of layer j that AnnAdjustWeightsResilientBP goes through.
RpropWeights(net, j) ==
    UNITS(net, j) * UNITS(net, j - 1) - (IF j - 1 > 0 THEN 1 ELSE 0)

AnnAdjustWeightsResilientBP(net) ==
    [net EXCEPT !.layer = [j \in DOMAIN @ |->
        IF j = 0 THEN @[j]
        ELSE LET L == net.layer[j]
                 n == RpropWeights(net, j)
                 E(i) == RpropEntry(net, L.weight[i], L.delta[i],
                                    L.pgradient[i], L.sgradient[i])
             IN  [L EXCEPT
                    !.weight = [i \in DOMAIN @ |->
                                  IF i < n THEN E(i).weight ELSE @[i]],
                    !.delta = [i \in DOMAIN @ |->
                                  IF i < n THEN E(i).delta ELSE @[i]],
                    !.pgradient = [i \in DOMAIN @ |->
                                  IF i < n THEN E(i).pgradient ELSE @[i]]]]]

(* ------------------- Gradient-Descent Update Engine -------------------- *)
AnnUpdateDeltasGD(net) ==
    [net EXCEPT !.layer = [l \in DOMAIN @ |->
        IF l = 0 THEN @[l]
        ELSE [@[l] EXCEPT !.delta =
                [k \in DOMAIN @ |->
                    IF k < UNITS(net, l) * UNITS(net, l - 1)
                    THEN @[k] + net.layer[l].gradient[k] ELSE @[k]]]]]

AnnAdjustWeights(net, setlen) ==
    [net EXCEPT !.layer = [l \in DOMAIN @ |->
        IF l = 0 THEN @[l]
        ELSE [@[l] EXCEPT !.weight =
                [k \in DOMAIN @ |->
                    IF k < UNITS(net, l) * UNITS(net, l - 1)
                    THEN @[k] - Mul(DivInt(net.learn_rate, setlen),
                                    net.layer[l].delta[k])
                    ELSE @[k]]]]]

(* ------------------------- classification error ------------------------ *)
RECURSIVE ClassId(_, _, _)
\* The first i >= k with desired[i] == 1, or outputs if there is none.
ClassId(desired, k, outputs) ==
    IF k >= outputs \/ desired[k + 1] = Q THEN k
    ELSE ClassId(desired, k + 1, outputs)

RECURSIVE OutIdSmallest(_, _, _, _)
\* The loop keeping the smaller output.
OutIdSmallest(o, k, outid, max) ==
    IF k >= Len(o) THEN outid
    ELSE IF o[k + 1] < max THEN OutIdSmallest(o, k + 1, k, o[k + 1])
    ELSE OutIdSmallest(o, k + 1, outid, max)

RECURSIVE OutId(_, _, _, _)
\* The loop over i = k..outputs-1 with the running outid and max.
OutId(o, k, outid, max) ==
    IF k >= Len(o) THEN outid
    ELSE IF o[k + 1] > max THEN OutId(o, k + 1, k, o[k + 1])
    ELSE OutId(o, k + 1, outid, max)

\* The outputs of the output layer as a sequence.
OutputNodes(net) == [k \in 1..OUTPUT_UNITS(net) |-> net.layer[0].output[k - 1]]

\* 1 if the class the network detects is not the desired one, else 0.
AnnTestClassError(net, desired) ==
    LET o == OutputNodes(net)
        classid == ClassId(desired, 0, OUTPUT_UNITS(net))
        outid == OutId(o, 1, 0, o[1])
    IN  IF outid # classid THEN 1 ELSE 0

(* ------------------------------- state --------------------------------- *)
\* net: the network under work (NoNet: none, or NULL was returned)
\* copy: what AnnClone returned       heap: the allocator's blocks
\* pc: the position of the caller and of the running function
\* req: the unit counts AnnCreateNet was asked for
\* nweights: what AnnCountWeights returned
\* fr: the arguments and locals of the running call
\* calls: epoch, train and test calls made so far
\* ret: what the last call returned
\* last: history, not program state: the network as it was when
\*   AnnAdjustWeightsResilientBP was last entered (NoNet: never), whether
\*   AnnGDEpoch has run an example since (gd), and whether that call came
\*   after an earlier one with no such example in between (clean)
VARIABLES net, copy, heap, pc, req, nweights, fr, calls, ret, last

vars == <<net, copy, heap, pc, req, nweights, fr, calls, ret, last>>

\* ds: the dataset, ds[j+1] holding the program's input+j*inputs and
\* desired+j*outputs; epochs, lasterr: the epochs the running AnnTrain has
\* run and what the last of them returned.
NoFrame ==
    [algo |-> NN_ALGO_BPROP, ds |-> <<>>, setlen |-> 0, j |-> 0, error |-> 0,
     i |-> 0, e |-> 0, maxerr |-> 0, maxepochs |-> 0, caller |-> "idle",
     class_errors |-> 0, wantavg |-> FALSE, wantclass |-> FALSE,
     epochs |-> 0, lasterr |-> 0]

NoRet == [e |-> 0, avgerr |-> 0, classerr |-> 0]

NoLast == [net |-> NoNet, gd |-> FALSE, clean |-> FALSE]

\* What a fresh block may hold where the program never writes it.
Garbage == {0, DEFAULT_LEARN_RATE, 7 * Q}

WeightValues == {-50, 0, 49}

RandStreams == {<<-50, 49>>, <<49, -50, 0>>}

UnitCounts == 1..MaxUnits

RECURSIVE SeqsOf(_, _)
\* The sequences of length n over S.
SeqsOf(S, n) ==
    IF n = 0 THEN {<<>>}
    ELSE {Append(s, x) : s \in SeqsOf(S, n - 1), x \in S}

StoreShapes == UNION {SeqsOf(UnitCounts, n) : n \in 2..MaxLayers}

\* The ways the allocations of a network of `layers` layers can go: every
\* malloc succeeds ("ok"), the structure's fails ("nonet"), the layer
\* table's fails ("nolayers"), or the arrays `fail` of layer failAt fail.
AllocOutcomes(layers) ==
    {[kind |-> k, failAt |-> layers, fail |-> {}] :
        k \in {"ok", "nonet", "nolayers"}} \cup
    UNION {{[kind |-> "layer", failAt |-> i, fail |-> fs] :
                fs \in (SUBSET Wanted(i)) \ {{}}} : i \in 0..(layers - 1)}

(* ---------------------------- store actions ---------------------------- *)
\* AnnCreateNet writes learn_rate before anything reads it, so what the
\* fresh block held there is not drawn here.
Create(units, o, r) ==
    /\ pc = "start"
    /\ LET c == AnnCreateNet(heap, "net", units, o.kind # "nonet",
                             o.kind # "nolayers", o.failAt, o.fail, 0, r)
       IN  /\ net' = c.net
           /\ heap' = c.heap
           /\ pc' = IF c.net = NoNet THEN "create_failed" ELSE "created"
    /\ req' = units
    /\ UNCHANGED <<copy, nweights, fr, calls, ret, last>>

CountWeights ==
    /\ pc = "created"
    /\ nweights' = AnnCountWeights(net)
    /\ pc' = "counted"
    /\ UNCHANGED <<net, copy, heap, req, fr, calls, ret, last>>

Clone(o, lr) ==
    /\ pc \in {"created", "idle"}
    /\ LET c == AnnClone(heap, "copy", net, o.kind # "nonet",
                         o.kind # "nolayers", o.failAt, o.fail, lr)
       IN  /\ copy' = c.net
           /\ heap' = c.heap
           /\ pc' = IF c.net = NoNet THEN "clone_failed" ELSE "cloned"
    /\ UNCHANGED <<net, req, nweights, fr, calls, ret, last>>

\* What the copy's block may hold in learn_rate: drawn where the copy is
\* returned, a copy that is freed again being read by nobody.
CloneGarbage(o) == IF o.kind = "ok" THEN Garbage ELSE {0}

InitStore ==
    /\ net = NoNet /\ copy = NoNet /\ heap = EmptyHeap /\ pc = "start"
    /\ req = <<>> /\ nweights = 0 /\ fr = NoFrame /\ calls = 0 /\ ret = NoRet /\ last = NoLast

NextStore ==
    \/ /\ pc = "start"
       /\ \E units \in StoreShapes, r \in RandStreams :
            \E o \in AllocOutcomes(Len(units)) : Create(units, o, r)
    \/ CountWeights
    \/ /\ pc \in {"created", "idle"}
       /\ \E o \in AllocOutcomes(LAYERS(net)) :
            \E lr \in CloneGarbage(o) : Clone(o, lr)

\* Creation, counting and cloning, with every allocation free to fail.
SpecStore == InitStore /\ [][NextStore]_vars

(* --------------------------- training actions -------------------------- *)
Idle == {"created", "idle"}

\* Where AnnResilientBPEpoch's loop goes with j examples done.
BpLoop(f, j) == IF j < f.setlen THEN "bp_sim" ELSE "bp_adjust"

\* The loop with AnnSetDeltas(net, 0) left out of its body.
GdLoopNoReset(f, j) == IF j < f.setlen THEN "gd_sim" ELSE "gd_ret"

\* Where AnnGDEpoch's loop goes with j examples done.
GdLoop(f, j) == IF j < f.setlen THEN "gd_setdeltas" ELSE "gd_ret"

\* AnnResilientBPEpoch(net, input, desired, setlen), called directly.
CallResilientBPEpoch(ds) ==
    /\ pc \in Idle /\ calls < MaxCalls
    /\ fr' = [NoFrame EXCEPT !.algo = NN_ALGO_BPROP, !.ds = ds,
                             !.setlen = Len(ds)]
    /\ pc' = "bp_reset"
    /\ calls' = calls + 1
    /\ UNCHANGED <<net, copy, heap, req, nweights, ret, last>>

\* AnnGDEpoch(net, input, desidered, setlen), called directly.
CallGDEpoch(ds) ==
    /\ pc \in Idle /\ calls < MaxCalls
    /\ fr' = [NoFrame EXCEPT !.algo = NN_ALGO_GD, !.ds = ds, !.setlen = Len(ds)]
    /\ pc' = GdLoop(fr', 0)
    /\ calls' = calls + 1
    /\ UNCHANGED <<net, copy, heap, req, nweights, ret, last>>

BpReset ==
    /\ pc = "bp_reset"
    /\ net' = AnnResetSgradient(net)
    /\ fr' = [fr EXCEPT !.j = 0, !.error = 0]
    /\ pc' = BpLoop(fr, 0)
    /\ UNCHANGED <<copy, heap, req, nweights, calls, ret, last>>

BpSimulate ==
    /\ pc = "bp_sim"
    /\ LET x == fr.ds[fr.j + 1]
           r == AnnSimulateError(net, x.input, x.desired)
       IN  /\ net' = r.net
           /\ fr' = [fr EXCEPT !.error = @ + r.error]
    /\ pc' = "bp_grad"
    /\ UNCHANGED <<copy, heap, req, nweights, calls, ret, last>>

BpGradients ==
    /\ pc = "bp_grad"
    /\ net' = AnnCalculateGradients(net, fr.ds[fr.j + 1].desired)
    /\ pc' = "bp_upd"
    /\ UNCHANGED <<copy, heap, req, nweights, fr, calls, ret, last>>

BpUpdateSgradient ==
    /\ pc = "bp_upd"
    /\ net' = AnnUpdateSgradient(net)
    /\ fr' = [fr EXCEPT !.j = @ + 1]
    /\ pc' = BpLoop(fr, fr.j + 1)
    /\ UNCHANGED <<copy, heap, req, nweights, calls, ret, last>>

BpAdjust ==
    /\ pc = "bp_adjust"
    /\ net' = AnnAdjustWeightsResilientBP(net)
    /\ pc' = "bp_ret"
    /\ last' = [net |-> net, gd |-> FALSE,
                 clean |-> last.net # NoNet /\ ~last.gd]
    /\ UNCHANGED <<copy, heap, req, nweights, fr, calls, ret>>

\* return error / setlen, to AnnTrain's loop or to the caller.
EpochReturn ==
    /\ pc \in {"bp_ret", "gd_ret"}
    /\ LET v == DivInt(fr.error, fr.setlen)
       IN  IF fr.caller = "train"
           THEN /\ fr' = [fr EXCEPT !.e = v, !.epochs = @ + 1, !.lasterr = v]
                /\ pc' = "tr_loop"
                /\ ret' = ret
           ELSE /\ fr' = NoFrame
                /\ pc' = "idle"
                /\ ret' = [ret EXCEPT !.e = v]
    /\ UNCHANGED <<net, copy, heap, req, nweights, calls, last>>

GdSetDeltas ==
    /\ pc = "gd_setdeltas"
    /\ net' = AnnSetDeltas(net, 0)
    /\ pc' = "gd_sim"
    /\ last' = [last EXCEPT !.gd = TRUE]
    /\ UNCHANGED <<copy, heap, req, nweights, fr, calls, ret>>

GdSimulate ==
    /\ pc = "gd_sim"
    /\ LET x == fr.ds[fr.j + 1]
           r == AnnSimulateError(net, x.input, x.desired)
       IN  /\ net' = r.net
           /\ fr' = [fr EXCEPT !.error = @ + r.error]
    /\ pc' = "gd_grad"
    /\ UNCHANGED <<copy, heap, req, nweights, calls, ret, last>>

GdGradients ==
    /\ pc = "gd_grad"
    /\ net' = AnnCalculateGradients(net, fr.ds[fr.j + 1].desired)
    /\ pc' = "gd_upd"
    /\ UNCHANGED <<copy, heap, req, nweights, fr, calls, ret, last>>

GdUpdateDeltas ==
    /\ pc = "gd_upd"
    /\ net' = AnnUpdateDeltasGD(net)
    /\ pc' = "gd_adjust"
    /\ UNCHANGED <<copy, heap, req, nweights, fr, calls, ret, last>>

GdAdjust ==
    /\ pc = "gd_adjust"
    /\ net' = AnnAdjustWeights(net, fr.setlen)
    /\ fr' = [fr EXCEPT !.j = @ + 1]
    /\ pc' = GdLoop(fr, fr.j + 1)
    /\ UNCHANGED <<copy, heap, req, nweights, calls, ret, last>>

\* AnnTrain up to its loop: i = 0, e = maxerr+1.
CallTrain(ds, maxerr, maxepochs, algo) ==
    /\ pc \in Idle /\ calls < MaxCalls
    /\ fr' = [NoFrame EXCEPT !.algo = algo, !.ds = ds, !.setlen = Len(ds),
                             !.maxerr = maxerr, !.maxepochs = maxepochs,
                             !.i = 0, !.e = maxerr + Q, !.caller = "train"]
    /\ pc' = "tr_loop"
    /\ calls' = calls + 1
    /\ UNCHANGED <<net, copy, heap, req, nweights, ret, last>>

\* The loop test with maxepochs itself let through.
TrainTestInclusive(f) == f.i <= f.maxepochs /\ f.e >= f.maxerr

\* i++ < maxepochs && e >= maxerr, on the values before the increment.
TrainTest(f) == f.i < f.maxepochs /\ f.e >= f.maxerr

\* One evaluation of the while condition, and the call of the epoch.
TrainLoop ==
    /\ pc = "tr_loop"
    /\ fr' = [fr EXCEPT !.i = @ + 1, !.j = 0, !.error = 0]
    /\ pc' = IF ~TrainTest(fr) THEN "tr_ret"
             ELSE IF fr.algo = NN_ALGO_BPROP THEN "bp_reset"
             ELSE IF fr.algo = NN_ALGO_GD THEN GdLoop(fr, 0)
             ELSE "tr_loop"
    /\ UNCHANGED <<net, copy, heap, req, nweights, calls, ret, last>>

\* return e.  The frame stays for the caller to look at.
TrainReturn ==
    /\ pc = "tr_ret"
    /\ ret' = [ret EXCEPT !.e = fr.e]
    /\ pc' = "trained"
    /\ UNCHANGED <<net, copy, heap, req, nweights, fr, calls, last>>

(* ------------------------------ test actions --------------------------- *)
\* AnnTestError(net, input, desired, setlen, avgerr, classerr); wantavg and
\* wantclass: whether avgerr and classerr are not NULL.
CallTestError(ds, wantavg, wantclass) ==
    /\ pc \in Idle /\ calls < MaxCalls
    /\ fr' = [NoFrame EXCEPT !.ds = ds, !.setlen = Len(ds),
                             !.wantavg = wantavg, !.wantclass = wantclass]
    /\ pc' = IF Len(ds) > 0 THEN "te_sim" ELSE "te_ret"
    /\ calls' = calls + 1
    /\ UNCHANGED <<net, copy, heap, req, nweights, ret, last>>

\* One round of AnnTestError's loop.
TestExample ==
    /\ pc = "te_sim"
    /\ LET x == fr.ds[fr.j + 1]
           r == AnnSimulateError(net, x.input, x.desired)
       IN  /\ net' = r.net
           /\ fr' = [fr EXCEPT
                       !.error = @ + r.error,
                       !.class_errors =
                           IF fr.wantclass
                           THEN @ + AnnTestClassError(r.net, x.desired) ELSE @,
                       !.j = @ + 1]
    /\ pc' = IF fr.j + 1 < fr.setlen THEN "te_sim" ELSE "te_ret"
    /\ UNCHANGED <<copy, heap, req, nweights, calls, ret, last>>

\* The two results written through the pointers that are not NULL.
TestReturn ==
    /\ pc = "te_ret"
    /\ ret' = [ret EXCEPT
                 !.avgerr = IF fr.wantavg THEN DivInt(fr.error, fr.setlen) ELSE @,
                 !.classerr = IF fr.wantclass
                              THEN DivInt(fr.class_errors * 100 * Q, fr.setlen)
                              ELSE @]
    /\ pc' = "tested"
    /\ UNCHANGED <<net, copy, heap, req, nweights, fr, calls, last>>

(* --------------------------- specifications --------------------------- *)
\* One example of a dataset for a network with one input and one output.
Ex(x, d) == [input |-> <<x>>, desired |-> <<d>>]

\* The requested unit counts of the networks that are trained.
TrainShapes == {<<1, 1>>, <<1, 1, 1>>}

\* The datasets handed to the epoch calls.
EpochSets == {<<Ex(Q, Q)>>, <<Ex(Q, 0)>>, <<Ex(0, Q), Ex(Q, Q)>>}

TrainExamples == {Ex(Q, Q), Ex(Q, 0)}

\* The datasets handed to AnnTrain.
TrainSets == UNION {SeqsOf(TrainExamples, n) : n \in 1..MaxSetLen}

MaxErrValues == {0, 125, 2 * Q}

\* How AnnClone's allocations go where training is the subject: all
\* succeed, or a structure or a whole layer fails.
CloneOutcomes(layers) ==
    {o \in AllocOutcomes(layers) : o.kind = "layer" => o.fail = Wanted(o.failAt)}

\* The network AnnCreateNet returns for `units` when no allocation fails.
Created0(units, r) ==
    AnnCreateNet(EmptyHeap, "net", units, TRUE, TRUE, Len(units), {}, 0, r)

InitCreated(shapes, streams) ==
    /\ \E units \in shapes, r \in streams :
          /\ net = Created0(units, r).net
          /\ heap = Created0(units, r).heap
          /\ req = units
    /\ copy = NoNet /\ pc = "created" /\ nweights = 0
    /\ fr = NoFrame /\ calls = 0 /\ ret = NoRet /\ last = NoLast

EpochSteps ==
    \/ BpReset \/ BpSimulate \/ BpGradients \/ BpUpdateSgradient \/ BpAdjust
    \/ GdSetDeltas \/ GdSimulate \/ GdGradients \/ GdUpdateDeltas \/ GdAdjust
    \/ EpochReturn

Init == InitCreated(TrainShapes, RandStreams)

Next ==
    \/ /\ pc \in Idle
       /\ \E ds \in EpochSets : CallResilientBPEpoch(ds) \/ CallGDEpoch(ds)
    \/ EpochSteps
    \/ /\ pc \in Idle
       /\ \E o \in CloneOutcomes(LAYERS(net)), lr \in Garbage : Clone(o, lr)

\* A created network, epochs of either kind run on it one after the other,
\* each with any of the datasets, and a clone taken at any point.
Spec == Init /\ [][Next]_vars

NextTrain ==
    \/ /\ pc = "created"
       /\ \E ds \in TrainSets, maxerr \in MaxErrValues,
             maxepochs \in 0..MaxEpochs, algo \in {NN_ALGO_BPROP, NN_ALGO_GD} :
               CallTrain(ds, maxerr, maxepochs, algo)
    \/ TrainLoop
    \/ EpochSteps
    \/ TrainReturn

\* One AnnTrain call on a created network.
SpecTrain == Init /\ [][NextTrain]_vars

\* The networks AnnTestError is called on: one input, two or three classes.
TestShapes == {<<2, 1>>, <<3, 1>>}

\* Weights as creation or training may have left them.
TestWeights == RandStreams \cup {<<2 * Q, -Q, 0, 500, -3 * Q>>}

\* The vector of n entries holding 1 at index c and 0 elsewhere.
OneHot(c, n) == [k \in 1..n |-> IF k = c + 1 THEN Q ELSE 0]

\* The examples for a network with one input and n classes.
TestExamples(n) ==
    {[input |-> <<x>>, desired |-> OneHot(c, n)] : x \in {0, Q}, c \in 0..(n - 1)}

\* The datasets handed to AnnTestError.
TestSets(n) == UNION {SeqsOf(TestExamples(n), len) : len \in 1..MaxSetLen}

InitTest ==
    /\ \E units \in TestShapes, w \in TestWeights :
          /\ net = AnnSetRandomWeights(Created0(units, w).net, w)
          /\ heap = Created0(units, w).heap
          /\ req = units
    /\ copy = NoNet /\ pc = "created" /\ nweights = 0
    /\ fr = NoFrame /\ calls = 0 /\ ret = NoRet /\ last = NoLast

NextTest ==
    \/ /\ pc = "created"
       /\ \E ds \in TestSets(OUTPUT_UNITS(net)), wantavg \in BOOLEAN,
             wantclass \in BOOLEAN : CallTestError(ds, wantavg, wantclass)
    \/ TestExample
    \/ TestReturn

\* One AnnTestError call on a network with two or three classes.
SpecTest == InitTest /\ [][NextTest]_vars

\* The caller takes AnnTrain's result and goes on.
TrainDone ==
    /\ pc = "trained"
    /\ fr' = NoFrame
    /\ pc' = "idle"
    /\ UNCHANGED <<net, copy, heap, req, nweights, calls, ret, last>>

NextTrains ==
    \/ /\ pc \in Idle
       /\ \E ds \in EpochSets, maxepochs \in 1..MaxEpochs,
             algo \in {NN_ALGO_BPROP, NN_ALGO_GD} :
               CallTrain(ds, 0, maxepochs, algo)
    \/ TrainLoop
    \/ EpochSteps
    \/ TrainReturn
    \/ TrainDone

\* A created network and AnnTrain calls on it one after the other, each
\* with either algorithm, for 1..MaxEpochs epochs (maxerr 0: no early end).
SpecTrains == Init /\ [][NextTrains]_vars

NextUse ==
    \/ /\ pc \in Idle
       /\ \E ds \in EpochSets : CallResilientBPEpoch(ds) \/ CallGDEpoch(ds)
    \/ EpochSteps
    \/ /\ pc \in Idle
       /\ \E ds \in EpochSets, wantavg \in BOOLEAN, wantclass \in BOOLEAN :
             CallTestError(ds, wantavg, wantclass)
    \/ TestExample
    \/ TestReturn

\* A created network, epochs of either kind run on it, then one
\* AnnTestError call.
SpecUse == Init /\ [][NextUse]_vars

(* ------------------------- claims on the store ------------------------- *)
RECURSIVE SumOver(_, _)
\* The sum of f[x] for x in S.
SumOver(f, S) ==
    IF S = {} THEN 0
    ELSE LET x == CHOOSE y \in S : TRUE IN f[x] + SumOver(f, S \ {x})

Created == pc \in {"created", "counted", "cloned", "clone_failed"}

\* C6 (as claimed): the network AnnClone returns equals its source in every
\* field: layer count, unit counts, every array, and every hyperparameter,
\* the learning rate among them.
C6_CloneEqualsSource == (pc = "cloned") => (copy = net)

\* C7: when an allocation fails in AnnCreateNet or AnnClone the result is
\* NULL, no block of that network is still allocated, and no block was
\* released twice.
C7_FailureReleasesAll ==
    /\ heap.dbl = {}
    /\ (pc = "create_failed") => (net = NoNet /\ heap.live = {})
    /\ (pc = "clone_failed") =>
          (copy = NoNet /\ \A b \in heap.live : b[1] # "copy")
    /\ (pc = "cloned") => (\A b \in heap.freed : b[1] # "copy")

\* A clone that failed in layer 1 after some of that layer's arrays had been
\* allocated, and released them.
C7_Witness ==
    /\ pc = "clone_failed"
    /\ <<"copy", 1, "weight">> \in heap.freed
    /\ <<"copy", 1, "delta">> \notin heap.freed
    /\ <<"copy", 0, "output">> \in heap.freed
    /\ <<"copy", -1, "net">> \in heap.freed

\* C8 (as claimed): every layer but the input layer stores one unit more
\* than requested, and the input layer stores the requested count.
C8_BiasOnNonInputLayers ==
    Created =>
        \A i \in 0..(LAYERS(net) - 1) :
            UNITS(net, i) = req[i + 1] + (IF i # LAYERS(net) - 1 THEN 1 ELSE 0)

\* C8 (amended): every layer but the output layer (index 0), the input layer
\* included, stores one unit more than requested, and the output layer
\* stores the requested count.
C8_BiasOnNonOutputLayers ==
    Created =>
        /\ LAYERS(net) = Len(req)
        /\ \A i \in 0..(LAYERS(net) - 1) :
              UNITS(net, i) = req[i + 1] + (IF i # 0 THEN 1 ELSE 0)

C8_Witness == pc = "created" /\ LAYERS(net) = 3 /\ req[3] = 2

\* Whether layer l has a bias unit.
HasBias(n, l) == l > 0

\* C9 (as claimed): the count is the sum over the non-input layers j of
\* units(j) times the units of the layer before it (j+1, toward the input),
\* less one if that layer has a bias unit and is not the input layer.
C9_CountBySourceBias ==
    (pc = "counted") =>
        nweights = SumOver([j \in 0..(LAYERS(net) - 2) |->
                       UNITS(net, j) *
                         (UNITS(net, j + 1) -
                            (IF HasBias(net, j + 1) /\ j + 1 # LAYERS(net) - 1
                             THEN 1 ELSE 0))],
                     0..(LAYERS(net) - 2))

\* C9 (amended): the count is the sum over the layers i that own weights
\* (1 <= i <= L-1) of units(i) times the units of layer i-1, less one if
\* layer i-1 has a bias unit.
C9_CountByDestinationBias ==
    (pc = "counted") =>
        nweights = SumOver([i \in 1..(LAYERS(net) - 1) |->
                       UNITS(net, i) *
                         (UNITS(net, i - 1) -
                            (IF HasBias(net, i - 1) THEN 1 ELSE 0))],
                     1..(LAYERS(net) - 1))

C9_Witness == pc = "counted" /\ LAYERS(net) = 3 /\ nweights = 9

(* ------------------------ claims on the training ----------------------- *)
\* The entries of layer j's weight array that lead to a unit of layer j-1
\* that is not its bias unit: the weights AnnSimulate reads.
ReadBySimulate(n, j) ==
    {x \in 0..(UNITS(n, j) * UNITS(n, j - 1) - 1) :
        ~(HasBias(n, j - 1) /\ x \div UNITS(n, j) = UNITS(n, j - 1) - 1)}

\* The RPROP rule of the claim for one weight: a, b the layer before and
\* after the call, x the entry.
RpropRule(n, a, b, x) ==
    LET p == a.pgradient[x]
        sg == a.sgradient[x]
        d == a.delta[x]
        w == a.weight[x]
        same == (p > 0 /\ sg > 0) \/ (p < 0 /\ sg < 0)
        flip == (p > 0 /\ sg < 0) \/ (p < 0 /\ sg > 0)
    IN  /\ same =>
            /\ b.delta[x] = MIN(Mul(d, n.rprop_nplus), n.rprop_maxupdate)
            /\ b.weight[x] = w - Sgn(sg) * b.delta[x]
            /\ b.pgradient[x] = sg
        /\ flip =>
            /\ b.delta[x] = MAX(Mul(d, n.rprop_nminus), n.rprop_minupdate)
            /\ b.weight[x] = w + Sgn(p) * d
            /\ b.pgradient[x] = 0
        /\ (~same /\ ~flip) =>
            /\ b.delta[x] = d
            /\ b.weight[x] = w - Sgn(sg) * d
            /\ b.pgradient[x] = sg

\* C1: one call of AnnAdjustWeightsResilientBP applies the RPROP rule to
\* every weight that AnnSimulate reads; none of them is skipped.
C1_RpropRuleOnEveryReadWeight ==
    [][(pc = "bp_adjust") =>
          \A j \in 1..(LAYERS(net) - 1) : \A x \in ReadBySimulate(net, j) :
              RpropRule(net, net.layer[j], net'.layer[j], x)]_vars

\* After an adjust call on a three-layer network: a weight of the input
\* layer that took the sign-flip branch and one that took the growth branch.
C1_Witness ==
    /\ pc = "bp_ret" /\ LAYERS(net) = 3
    /\ \E x \in ReadBySimulate(net, 2) :
          /\ net.layer[2].pgradient[x] = 0
          /\ net.layer[2].sgradient[x] # 0
    /\ \E j \in 1..2 : \E x \in ReadBySimulate(net, j) :
          /\ net.layer[j].delta[x] = Mul(RPROP_INITIAL_DELTA, DEFAULT_RPROP_NPLUS)
          /\ net.layer[j].pgradient[x] # 0

\* The gradient arrays AnnCalculateGradients leaves for example x on the
\* weights of n.
GradientOf(n, x) ==
    AnnCalculateGradients(AnnSimulate(AnnSetInput(n, x.input)), x.desired)

\* The per-weight arrays of the training state.
Trained(n) == [l \in 1..(LAYERS(n) - 1) |->
                 <<n.layer[l].weight, n.layer[l].delta, n.layer[l].pgradient>>]

\* C2: in one RPROP epoch the accumulator is zeroed before the first
\* example, no weight, delta or pgradient changes while the examples are
\* processed in dataset order, and the one adjust call comes after the last
\* example, when every accumulator entry is the sum of the per-example
\* gradients.
C2_RpropEpochOrder ==
    [][/\ (pc = "bp_reset") =>
            /\ pc' = "bp_sim" /\ fr'.j = 0
            /\ \A l \in 1..(LAYERS(net) - 1) : \A x \in DOMAIN net.layer[l].sgradient :
                  net'.layer[l].sgradient[x] = 0
       /\ (pc \in {"bp_reset", "bp_sim", "bp_grad", "bp_upd"}) =>
            Trained(net') = Trained(net)
       /\ (pc = "bp_upd") =>
            /\ fr'.j = fr.j + 1
            /\ pc' = (IF fr'.j = fr.setlen THEN "bp_adjust" ELSE "bp_sim")
       /\ (pc = "bp_adjust") =>
            /\ fr.j = fr.setlen
            /\ pc' = "bp_ret"
            /\ \A l \in 1..(LAYERS(net) - 1) : \A x \in DOMAIN net.layer[l].sgradient :
                  net.layer[l].sgradient[x] =
                      SumOver([k \in 1..fr.setlen |->
                                 GradientOf(net, fr.ds[k]).layer[l].gradient[x]],
                              1..fr.setlen)
       /\ (pc = "bp_ret") => (pc' \notin {"bp_adjust", "bp_sim", "bp_reset"})]_vars

\* A later epoch over two examples about to adjust, with a sum that is not
\* zero and differs from the last gradient.
C2_Witness ==
    /\ pc = "bp_adjust" /\ fr.setlen = 2 /\ calls >= 2 /\ LAYERS(net) = 3
    /\ \E x \in DOMAIN net.layer[2].sgradient :
          /\ net.layer[2].sgradient[x] # 0
          /\ net.layer[2].sgradient[x] # net.layer[2].gradient[x]

\* C3: in one gradient-descent epoch, for each example in order the deltas
\* are zeroed, the gradients computed and added to the deltas, and the
\* weights moved by (learn_rate/setlen)*delta before the next example: one
\* move per example, each by the gradient of that example alone.
C3_GdPerExampleUpdate ==
    [][/\ (pc = "gd_setdeltas") =>
            /\ pc' = "gd_sim"
            /\ \A l \in 1..(LAYERS(net) - 1) : \A x \in DOMAIN net.layer[l].delta :
                  net'.layer[l].delta[x] = 0
       /\ (pc \in {"gd_setdeltas", "gd_sim", "gd_grad", "gd_upd"}) =>
            \A l \in 1..(LAYERS(net) - 1) :
                net'.layer[l].weight = net.layer[l].weight
       /\ (pc = "gd_adjust") =>
            /\ fr'.j = fr.j + 1
            /\ pc' = (IF fr'.j = fr.setlen THEN "gd_ret" ELSE "gd_setdeltas")
            /\ \A l \in 1..(LAYERS(net) - 1) : \A x \in DOMAIN net.layer[l].weight :
                  LET g == GradientOf(net, fr.ds[fr.j + 1]).layer[l].gradient[x]
                  IN  /\ net.layer[l].delta[x] = g
                      /\ net'.layer[l].weight[x] =
                            net.layer[l].weight[x] -
                              Mul(DivInt(net.learn_rate, fr.setlen), g)
       /\ (pc = "gd_ret") => (fr.j = fr.setlen)]_vars

\* The end of a gradient-descent epoch over two examples, the last of which
\* left a gradient that is not zero.
C3_Witness ==
    /\ pc = "gd_ret" /\ fr.setlen = 2 /\ fr.j = 2 /\ LAYERS(net) = 3
    /\ \E x \in DOMAIN net.layer[2].delta : net.layer[2].delta[x] # 0

\* The bias units of n all have output 1.
BiasOutputsOne(n) ==
    \A l \in 0..(LAYERS(n) - 1) :
        HasBias(n, l) => n.layer[l].output[UNITS(n, l) - 1] = Q

\* C5: the output of every bias unit, of the network and of its clone, is
\* exactly 1 in every reachable state.
C5_BiasOutputIsOne == BiasOutputsOne(net) /\ BiasOutputsOne(copy)

\* A clone of a three-layer network taken after training, whose hidden
\* unit holds a simulated output.
C5_Witness ==
    /\ pc = "cloned" /\ calls >= 2 /\ LAYERS(copy) = 3
    /\ copy.layer[1].output[0] \notin {0, Q}
    /\ copy.layer[1].weight # Created0(req, <<49, -50, 0>>).net.layer[1].weight
    /\ copy.layer[1].weight # Created0(req, <<-50, 49>>).net.layer[1].weight

\* What holds of a running or finished AnnTrain call with frame f at
\* position c, r being the returned values.
TrainFacts(f, c, r) ==
    /\ f.epochs <= f.maxepochs
    /\ (f.caller = "train" /\ f.epochs >= 1
          /\ c \notin {"tr_loop", "tr_ret", "trained"}) =>
          f.lasterr >= f.maxerr
    /\ (c = "trained") =>
          /\ (f.epochs >= 1) => (r.e = f.lasterr)
          /\ f.epochs = f.maxepochs \/ r.e < f.maxerr

\* The steps left in the running epoch at position c.
EpochRank(f, c) ==
    LET left == f.setlen - f.j
    IN  CASE c = "bp_reset" -> 3 * f.setlen + 4
          [] c = "bp_sim" -> 3 * left + 3
          [] c = "bp_grad" -> 3 * left + 2
          [] c = "bp_upd" -> 3 * left + 1
          [] c = "bp_adjust" -> 2
          [] c = "gd_setdeltas" -> 5 * left + 1
          [] c = "gd_sim" -> 5 * left
          [] c = "gd_grad" -> 5 * left - 1
          [] c = "gd_upd" -> 5 * left - 2
          [] c = "gd_adjust" -> 5 * left - 3
          [] OTHER -> 1

\* A bound on the steps an AnnTrain call at position c has left.
TrainRank(f, c) ==
    CASE c = "trained" -> 0
      [] c = "tr_ret" -> 1
      [] c = "tr_loop" -> (f.maxepochs + 1 - f.i) * (5 * f.setlen + 5) + 2
      [] OTHER -> (f.maxepochs + 1 - f.i) * (5 * f.setlen + 5) + 2 + EpochRank(f, c)

\* C4: AnnTrain ends (every step of a call lowers a bound on the steps
\* left); it runs at most maxepochs epochs, a further one only while the
\* last one's average error is >= maxerr; it returns the average error of
\* the last epoch it ran, and then either maxepochs epochs were run or the
\* returned error is < maxerr.
C4_TrainTerminates ==
    [][/\ TrainFacts(fr, pc, ret) /\ TrainFacts(fr', pc', ret')
       /\ (fr'.caller = "train") =>
             /\ TrainRank(fr', pc') >= 0
             /\ (fr.caller = "train") => TrainRank(fr', pc') < TrainRank(fr, pc)]_vars

\* A call that stopped before maxepochs because the error fell below a
\* threshold the first epoch had not met.
C4_Witness ==
    /\ pc = "trained" /\ fr.maxepochs = 2 /\ fr.epochs = 1
    /\ fr.maxerr = 125 /\ ret.e < fr.maxerr

(* ------------------------- claims on testing -------------------------- *)
\* The index of the largest entry of o, the first one among equals.
Largest(o) ==
    CHOOSE k \in 0..(Len(o) - 1) :
        \A l \in 0..(Len(o) - 1) :
            /\ o[l + 1] <= o[k + 1]
            /\ (l < k) => (o[l + 1] < o[k + 1])

\* The index at which a one-hot vector holds 1.
HotIndex(d) == CHOOSE k \in 0..(Len(d) - 1) : d[k + 1] = Q

\* The examples of ds that network n classifies wrongly.
Misclassified(n, ds) ==
    {j \in 1..Len(ds) :
        Largest(OutputNodes(AnnSimulate(AnnSetInput(n, ds[j].input))))
            # HotIndex(ds[j].desired)}

\* C10: AnnTestError over N >= 1 one-hot examples reports 100 * m / N as
\* classification error, m being the number of examples whose largest
\* output is not at the index where the desired vector holds 1: 0 when no
\* example is misclassified, 100 when every one is.
C10_ClassErrorIsPercentage ==
    (pc = "tested" /\ fr.wantclass) =>
        LET m == Cardinality(Misclassified(net, fr.ds))
            N == Len(fr.ds)
        IN  /\ ret.classerr = DivInt(100 * Q * m, N)
            /\ (m = 0) => (ret.classerr = 0)
            /\ (m = N) => (ret.classerr = 100 * Q)

\* A three-class dataset of which some but not all examples were
\* misclassified.
C10_Witness ==
    /\ pc = "tested" /\ fr.wantclass /\ OUTPUT_UNITS(net) = 3
    /\ fr.class_errors > 0 /\ fr.class_errors < fr.setlen
    /\ ret.classerr = DivInt(100 * Q * fr.class_errors, fr.setlen)

\* Everything of network n but the output arrays.
BesidesOutputs(n) ==
    [n EXCEPT !.layer = [l \in DOMAIN @ |-> [@[l] EXCEPT !.output = EmptyArr]]]

\* C11: AnnTestError changes no weight, gradient, sgradient, pgradient,
\* delta, error entry or hyperparameter: each of its steps, from the call
\* to the return, leaves everything but the output arrays as it was.
C11_TestChangesOutputsOnly ==
    [][(pc' \in {"te_sim", "te_ret", "tested"}) =>
          BesidesOutputs(net') = BesidesOutputs(net)]_vars

\* A test that has returned on a three-layer network trained before, with
\* gradients in place and outputs that the test has written.
C11_Witness ==
    /\ pc = "tested" /\ calls >= 2 /\ LAYERS(net) = 3
    /\ \E x \in DOMAIN net.layer[2].gradient : net.layer[2].gradient[x] # 0
    /\ \E x \in DOMAIN net.layer[2].delta :
          net.layer[2].delta[x] # RPROP_INITIAL_DELTA
    /\ net.layer[0].output[0] =
          AnnSimulate(AnnSetInput(net, fr.ds[fr.setlen].input)).layer[0].output[0]
    /\ net.layer[0].output[0] \notin {0, Q}

(* ------------------------ claims on the gradients ---------------------- *)
\* C12: when AnnCalculateGradients runs, for every layer j in 0..L-2 that
\* carries a bias unit the loop over the destination units of layer j
\* leaves the bias unit out.
C12_BiasNeverDestination ==
    (pc \in {"bp_grad", "gd_grad"}) =>
        \A j \in 0..(LAYERS(net) - 2) :
            HasBias(net, j) => (UNITS(net, j) - 1) \notin Destinations(net, j)

(* ---------------------- claims on the RPROP history -------------------- *)
\* The entries of layer j of n for which an adjust call takes the
\* sign-flip branch.
Flips(n, j) ==
    {x \in 0..(RpropWeights(n, j) - 1) :
        \/ n.layer[j].pgradient[x] > 0 /\ n.layer[j].sgradient[x] < 0
        \/ n.layer[j].pgradient[x] < 0 /\ n.layer[j].sgradient[x] > 0}

\* For entry x of layer j the step from a to b moves the weight back to
\* what it was in before, by sign(pgradient) * (old delta) and no further.
Undoes(before, a, b, j, x) ==
    /\ b.layer[j].weight[x] = before.layer[j].weight[x]
    /\ b.layer[j].weight[x] - a.layer[j].weight[x] =
          Sgn(a.layer[j].pgradient[x]) * a.layer[j].delta[x]

\* C13 as claimed: whenever an adjust call takes the sign-flip branch for a
\* weight, the weight afterwards has the value it had right before the
\* preceding adjust call.
C13_FlipRestoresWeight ==
    [][(pc = "bp_adjust") =>
          \A j \in 1..(LAYERS(net) - 1) : \A x \in Flips(net, j) :
              last.net # NoNet /\ Undoes(last.net, net, net', j, x)]_vars

\* C13 as amended: the same, for adjust calls with no gradient-descent
\* example run since the preceding adjust call.
C13_FlipRestoresWeightInRpropRun ==
    [][(pc = "bp_adjust" /\ ~last.gd) =>
          \A j \in 1..(LAYERS(net) - 1) : \A x \in Flips(net, j) :
              last.net # NoNet /\ Undoes(last.net, net, net', j, x)]_vars

\* An adjust call right after another RPROP epoch has taken the sign-flip
\* branch for a weight of a three-layer network and moved it.
C13_Witness ==
    /\ pc = "bp_ret" /\ last.clean /\ LAYERS(net) = 3
    /\ \E j \in 1..2 : \E x \in Flips(last.net, j) :
          /\ net.layer[j].weight[x] # last.net.layer[j].weight[x]
          /\ net.layer[j].pgradient[x] = 0

\* C14: whenever AnnAdjustWeightsResilientBP is about to run, in any
\* sequence of AnnTrain calls with either algorithm, the delta of every
\* weight it reads is a step size within rprop_minupdate..rprop_maxupdate.
C14_DeltaIsStepSize ==
    (pc = "bp_adjust") =>
        \A j \in 1..(LAYERS(net) - 1) : \A x \in 0..(RpropWeights(net, j) - 1) :
            /\ net.layer[j].delta[x] >= net.rprop_minupdate
            /\ net.layer[j].delta[x] <= net.rprop_maxupdate

\* C15: in a run of RPROP epochs, a weight for which the preceding adjust
\* call took the sign-flip branch has pgradient 0 and the shrunken delta
\* when the next adjust call starts; that call does not flip for it again,
\* leaves its delta as it is and moves the weight by that delta against the
\* sign of the new set-wise gradient.
C15_NoTwoFlipsInARow ==
    [][(pc = "bp_adjust" /\ last.net # NoNet /\ ~last.gd) =>
          \A j \in 1..(LAYERS(net) - 1) : \A x \in Flips(last.net, j) :
              LET a == net.layer[j]
                  b == net'.layer[j]
              IN  /\ x \notin Flips(net, j)
                  /\ a.pgradient[x] = 0
                  /\ a.delta[x] = MAX(Mul(last.net.layer[j].delta[x],
                                          net.rprop_nminus),
                                      net.rprop_minupdate)
                  /\ b.delta[x] = a.delta[x]
                  /\ b.weight[x] = a.weight[x] - Sgn(a.sgradient[x]) * a.delta[x]
                  /\ b.pgradient[x] = a.sgradient[x]]_vars

\* A third adjust call in a row has stepped a weight whose delta the call
\* before had shrunk, by that delta and against a gradient that is not zero.
C15_Witness ==
    /\ pc = "bp_ret" /\ last.clean /\ calls = 3
    /\ \E j \in 1..(LAYERS(net) - 1) : \E x \in 0..(RpropWeights(net, j) - 1) :
          /\ last.net.layer[j].pgradient[x] = 0
          /\ last.net.layer[j].delta[x] =
                Mul(RPROP_INITIAL_DELTA, DEFAULT_RPROP_NMINUS)
          /\ last.net.layer[j].sgradient[x] # 0
          /\ net.layer[j].delta[x] = last.net.layer[j].delta[x]
          /\ net.layer[j].weight[x] # last.net.layer[j].weight[x]

====
